---- MODULE Spec2Model ----
(***************************************************************************)
(* NbEmailPassAuthProvider (src/framework/auth/providers/                  *)
(* email-pass-auth.provider.ts): the six authentication actions as rxjs    *)
(* pipelines over one transport request each, the merged configuration     *)
(* they read, and the NbAuthResult each invocation delivers.               *)
(*                                                                         *)
(* JavaScript values are tagged records, so that values of different       *)
(* JavaScript types can be compared.  A string is kept as the sequence of  *)
(* its dot-separated segments, which is what the path walker obtains from  *)
(* name.split('.'): 'data.token' is <<"data", "token">>, 'abc' is          *)
(* <<"abc">> and the empty string is <<"">>.                               *)
(***************************************************************************)
EXTENDS Integers, Sequences, FiniteSets, TLC

VARIABLES config, inv

vars == <<config, inv>>

(* ---------------------------- JavaScript values ------------------------ *)

Undef == [t |-> "undefined"]

Null == [t |-> "null"]

Bool(b) == [t |-> "boolean", v |-> b]

Str(s) == [t |-> "string", v |-> <<s>>]

Num(n) == [t |-> "number", v |-> n]

Key(segments) == [t |-> "string", v |-> segments]

Arr(strings) == [t |-> "array", v |-> strings]

Fn(name) == [t |-> "function", v |-> name]

Obj(fields) == [t |-> "object", cls |-> "Object", v |-> fields]

NoFields == [k \in {} |-> Undef]

HttpResponse(status, body) ==
  [t |-> "object", cls |-> "HttpResponse",
   v |-> [status |-> Num(status), body |-> body]]

HttpErrorResponse(status, error) ==
  [t |-> "object", cls |-> "HttpErrorResponse",
   v |-> [status |-> Num(status), error |-> error]]

JsError(message) ==
  [t |-> "object", cls |-> "Error", v |-> [message |-> Str(message)]]

\* o[k] : reading a property that is not there gives undefined
Prop(o, k) ==
  IF o.t = "object" /\ k \in DOMAIN o.v THEN o.v[k] ELSE Undef

\* o[k] = val
SetProp(o, k, val) ==
  [o EXCEPT !.v = [kk \in (DOMAIN o.v) \cup {k} |->
                     IF kk = k THEN val ELSE o.v[kk]]]

\* !x is false
Truthy(x) ==
  CASE x.t = "undefined" -> FALSE
    [] x.t = "null" -> FALSE
    [] x.t = "boolean" -> x.v
    [] x.t = "string" -> x.v # <<"">>
    [] OTHER -> TRUE

\* the string a value becomes as an operand of a string +
ToStr(x) ==
  CASE x.t = "null" -> <<"null">>
    [] x.t = "undefined" -> <<"undefined">>
    [] OTHER -> x.v

\* a + b on strings
Plus(a, b) ==
  LET l == ToStr(a)
      r == ToStr(b)
  IN  [t |-> "string",
       v |-> SubSeq(l, 1, Len(l) - 1) \o <<l[Len(l)] \o r[1]>> \o Tail(r)]

(* ------------------- helpers outside the provider's file --------------- *)

RECURSIVE Walk(_, _)
\* the value reached from container along the segments of path, undefined
\* as soon as a segment is missing
Walk(container, path) ==
  IF path = <<>> THEN container
  ELSE IF container.t = "object" /\ Head(path) \in DOMAIN container.v
       THEN Walk(container.v[Head(path)], Tail(path))
       ELSE Undef

\* helpers.getDeepFromObject(object = {}, name, defaultValue)
getDeepFromObject(object, name, defaultValue) ==
  LET found == Walk(IF object = Undef THEN Obj(NoFields) ELSE object, name)
  IN  IF found = Undef THEN defaultValue ELSE found

RECURSIVE deepExtend(_, _)
\* helpers.deepExtend: source laid over target, plain objects merged key by
\* key, every other value (null and arrays included) replacing the target's
deepExtend(target, source) ==
  IF target.t = "object" /\ source.t = "object"
     /\ target.cls = "Object" /\ source.cls = "Object"
  THEN Obj([k \in (DOMAIN target.v) \cup (DOMAIN source.v) |->
              IF k \notin DOMAIN source.v THEN target.v[k]
              ELSE IF k \notin DOMAIN target.v THEN source.v[k]
              ELSE deepExtend(target.v[k], source.v[k])])
  ELSE source

\* NbAbstractAuthProvider.getConfigValue(key)
getConfigValue(key) == getDeepFromObject(config, key, Null)

\* NbAbstractAuthProvider.createFailResponse(data?): a synthetic response
\* that is not an HttpErrorResponse
createFailResponse(data) == HttpResponse(401, Obj(NoFields))

\* new NbAuthResult(success, response, redirect, errors, messages, token);
\* Undef stands for an argument left out
NbAuthResult(success, response, redirect, errors, messages, token) ==
  [success |-> success,
   response |-> response,
   redirect |-> redirect,
   errors |-> IF errors.t = "array" THEN errors.v ELSE <<>>,
   messages |-> IF messages.t = "array" THEN messages.v ELSE <<>>,
   token |-> token]

(* ------------------------------ configuration -------------------------- *)

Actions == {"login", "register", "logout", "requestPass", "resetPass",
            "refreshToken"}

Redirect(success, failure) == Obj([success |-> success, failure |-> failure])

defaultConfig ==
  Obj([
    baseEndpoint |-> Str("/api/auth/"),
    login |-> Obj([
      alwaysFail |-> Bool(FALSE),
      rememberMe |-> Bool(TRUE),
      endpoint |-> Str("login"),
      method |-> Str("post"),
      redirect |-> Redirect(Str("/"), Null),
      defaultErrors |->
        Arr(<<"Login/Email combination is not correct, please try again.">>),
      defaultMessages |-> Arr(<<"You have been successfully logged in.">>)]),
    register |-> Obj([
      alwaysFail |-> Bool(FALSE),
      rememberMe |-> Bool(TRUE),
      endpoint |-> Str("register"),
      method |-> Str("post"),
      redirect |-> Redirect(Str("/"), Null),
      defaultErrors |-> Arr(<<"Something went wrong, please try again.">>),
      defaultMessages |-> Arr(<<"You have been successfully registered.">>)]),
    logout |-> Obj([
      alwaysFail |-> Bool(FALSE),
      endpoint |-> Str("logout"),
      method |-> Str("delete"),
      redirect |-> Redirect(Str("/"), Null),
      defaultErrors |-> Arr(<<"Something went wrong, please try again.">>),
      defaultMessages |-> Arr(<<"You have been successfully logged out.">>)]),
    requestPass |-> Obj([
      endpoint |-> Str("request-pass"),
      method |-> Str("post"),
      redirect |-> Redirect(Str("/"), Null),
      defaultErrors |-> Arr(<<"Something went wrong, please try again.">>),
      defaultMessages |->
        Arr(<<"Reset password instructions have been sent to your email.">>)]),
    resetPass |-> Obj([
      endpoint |-> Str("reset-pass"),
      method |-> Str("put"),
      redirect |-> Redirect(Str("/"), Null),
      resetPasswordTokenKey |-> Str("reset_password_token"),
      defaultErrors |-> Arr(<<"Something went wrong, please try again.">>),
      defaultMessages |->
        Arr(<<"Your password has been successfully changed.">>)]),
    refreshToken |-> Obj([
      endpoint |-> Str("refresh-token"),
      method |-> Str("post"),
      redirect |-> Redirect(Null, Null),
      defaultErrors |-> Arr(<<"Something went wrong, please try again.">>),
      defaultMessages |->
        Arr(<<"Your token has been successfully refreshed.">>)]),
    token |-> Obj([
      key |-> Key(<<"data", "token">>),
      getter |-> Fn("token.getter")]),
    errors |-> Obj([
      key |-> Key(<<"data", "errors">>),
      getter |-> Fn("errors.getter")]),
    messages |-> Obj([
      key |-> Key(<<"data", "messages">>),
      getter |-> Fn("messages.getter")])])

\* defaultConfig.token.getter
tokenGetter(module, res) ==
  getDeepFromObject(Prop(res, "body"), getConfigValue(<<"token", "key">>).v,
                    Undef)

\* mutant: the errors getter without its defaultErrors fallback
errorsGetter_NoFallback(module, res) ==
  getDeepFromObject(Prop(res, "error"), getConfigValue(<<"errors", "key">>).v,
                    Undef)

\* defaultConfig.errors.getter
errorsGetter(module, res) ==
  getDeepFromObject(Prop(res, "error"), getConfigValue(<<"errors", "key">>).v,
                    getConfigValue(<<module, "defaultErrors">>))

\* defaultConfig.messages.getter
messagesGetter(module, res) ==
  getDeepFromObject(Prop(res, "body"),
                    getConfigValue(<<"messages", "key">>).v,
                    getConfigValue(<<module, "defaultMessages">>))

\* an errors getter a caller configures in place of the default one
CustomErrors == <<"Custom error.">>

\* getter(module, res), for the function value a configuration key holds
Apply(getter, module, res) ==
  CASE getter = Fn("token.getter") -> tokenGetter(module, res)
    [] getter = Fn("errors.getter") -> errorsGetter(module, res)
    [] getter = Fn("messages.getter") -> messagesGetter(module, res)
    [] getter = Fn("custom.errors.getter") -> Arr(CustomErrors)

\* the partial configurations a provider is constructed with: any set of
\* actions made to always fail, a logout endpoint left alone, emptied or
\* nulled, a base endpoint left alone or emptied, an errors getter and a
\* reset token key left alone or replaced
AlwaysFailOverride(failing) ==
  Obj([a \in failing |-> Obj([alwaysFail |-> Bool(TRUE)])])

LogoutEndpointOverrides ==
  {Obj(NoFields),
   Obj([logout |-> Obj([endpoint |-> Str("")])]),
   Obj([logout |-> Obj([endpoint |-> Null])])}

BaseEndpointOverrides ==
  {Obj(NoFields), Obj([baseEndpoint |-> Str("")])}

ErrorsGetterOverrides ==
  {Obj(NoFields),
   Obj([errors |-> Obj([getter |-> Fn("custom.errors.getter")])])}

TokenKeyOverrides ==
  {Obj(NoFields),
   Obj([resetPass |-> Obj([resetPasswordTokenKey |-> Str("token")])])}

Overrides ==
  {deepExtend(deepExtend(deepExtend(deepExtend(AlwaysFailOverride(f), l), b),
                         e), k) :
     f \in SUBSET Actions, l \in LogoutEndpointOverrides,
     b \in BaseEndpointOverrides, e \in ErrorsGetterOverrides,
     k \in TokenKeyOverrides}

\* NbAbstractAuthProvider.setConfig: the overrides laid over the defaults
setConfig(override) == deepExtend(defaultConfig, override)

(* ------------------------- the rxjs notifications ---------------------- *)

\* what one stage of a pipe hands to the next: a value or an error, the
\* console lines written so far, and whether the stream has completed
OnNext(value) ==
  [kind |-> "next", value |-> value, log |-> <<>>, complete |-> FALSE]

OnError(error) ==
  [kind |-> "error", value |-> error, log |-> <<>>, complete |-> FALSE]

Throw(n, error) == [n EXCEPT !.kind = "error", !.value = error]

Emit(n, value) == [n EXCEPT !.kind = "next", !.value = value]

(* ----------------------------- the provider ---------------------------- *)

getActionEndpoint(action) ==
  LET actionEndpoint == getConfigValue(<<action, "endpoint">>)
      baseEndpoint == getConfigValue(<<"baseEndpoint">>)
  IN  Plus(baseEndpoint, actionEndpoint)

\* mutant: the alwaysFail flag is never looked at
alwaysFailMap_Ignored(module, data, n) == n

\* mutant: the flag also replaces an error of the transport by the synthetic
\* failure
alwaysFailMap_OnErrors(module, data, n) ==
  IF Truthy(getConfigValue(<<module, "alwaysFail">>))
  THEN Throw(n, createFailResponse(data))
  ELSE n

\* map((res) => { if (alwaysFail) { throw createFailResponse(..) } return res })
alwaysFailMap(module, data, n) ==
  IF n.kind # "next" THEN n
  ELSE IF Truthy(getConfigValue(<<module, "alwaysFail">>))
       THEN Throw(n, createFailResponse(data))
       ELSE n

\* mutant: the token is not validated
validateToken_Unchecked(module, n) == n

\* mutant: a missing token is an error, but nothing is written to the console
validateToken_Silent(module, n) ==
  IF n.kind # "next" THEN n
  ELSE LET token == Apply(getConfigValue(<<"token", "getter">>), module,
                          n.value)
       IN  IF ~Truthy(token)
           THEN Throw(n, JsError("Could not extract token from the response."))
           ELSE n

validateToken(module, n) ==
  IF n.kind # "next" THEN n
  ELSE LET token == Apply(getConfigValue(<<"token", "getter">>), module,
                          n.value)
       IN  IF ~Truthy(token)
           THEN LET key == getConfigValue(<<"token", "key">>)
                    warned == [n EXCEPT !.log = Append(@,
                                [key |-> key,
                                 getter |-> getConfigValue(<<"token", "getter">>)])]
                IN  Throw(warned,
                          JsError("Could not extract token from the response."))
           ELSE n

\* mutant: the success Result takes the failure redirect
tokenResultMap_FailureRedirect(module, n) ==
  IF n.kind # "next" THEN n
  ELSE Emit(n, NbAuthResult(
         TRUE,
         n.value,
         getConfigValue(<<module, "redirect", "failure">>),
         Arr(<<>>),
         Apply(getConfigValue(<<"messages", "getter">>), module, n.value),
         Apply(getConfigValue(<<"token", "getter">>), module, n.value)))

\* mutant: the success Result is built without the token
tokenResultMap_NoToken(module, n) ==
  IF n.kind # "next" THEN n
  ELSE Emit(n, NbAuthResult(
         TRUE,
         n.value,
         getConfigValue(<<module, "redirect", "success">>),
         Arr(<<>>),
         Apply(getConfigValue(<<"messages", "getter">>), module, n.value),
         Undef))

\* map((res) => new NbAuthResult(true, res, redirect.success, [], messages,
\* token)) of authenticate, register and refreshToken
tokenResultMap(module, n) ==
  IF n.kind # "next" THEN n
  ELSE Emit(n, NbAuthResult(
         TRUE,
         n.value,
         getConfigValue(<<module, "redirect", "success">>),
         Arr(<<>>),
         Apply(getConfigValue(<<"messages", "getter">>), module, n.value),
         Apply(getConfigValue(<<"token", "getter">>), module, n.value)))

\* mutant: the token getter's value is passed on as in authenticate
resultMap_WithToken(module, n) ==
  IF n.kind # "next" THEN n
  ELSE Emit(n, NbAuthResult(
         TRUE,
         n.value,
         getConfigValue(<<module, "redirect", "success">>),
         Arr(<<>>),
         Apply(getConfigValue(<<"messages", "getter">>), module, n.value),
         Apply(getConfigValue(<<"token", "getter">>), module, n.value)))

\* map((res) => new NbAuthResult(true, res, redirect.success, [], messages))
\* of requestPassword, resetPassword and logout
resultMap(module, n) ==
  IF n.kind # "next" THEN n
  ELSE Emit(n, NbAuthResult(
         TRUE,
         n.value,
         getConfigValue(<<module, "redirect", "success">>),
         Arr(<<>>),
         Apply(getConfigValue(<<"messages", "getter">>), module, n.value),
         Undef))

\* mutant: the failure Result takes the success redirect
catchError_SuccessRedirect(module, n) ==
  IF n.kind # "error" THEN n
  ELSE LET res == n.value
           errors == IF res.t = "object" /\ res.cls = "HttpErrorResponse"
                     THEN Apply(getConfigValue(<<"errors", "getter">>),
                                module, res)
                     ELSE Arr(<<"Something went wrong.">>)
       IN  [Emit(n, NbAuthResult(
              FALSE,
              res,
              getConfigValue(<<module, "redirect", "success">>),
              errors,
              Undef,
              Undef)) EXCEPT !.complete = TRUE]

\* mutant: only an HttpErrorResponse is caught, any other error is rethrown
catchError_Rethrow(module, n) ==
  IF n.kind # "error" THEN n
  ELSE LET res == n.value
       IN  IF res.t = "object" /\ res.cls = "HttpErrorResponse"
           THEN [Emit(n, NbAuthResult(
                   FALSE,
                   res,
                   getConfigValue(<<module, "redirect", "failure">>),
                   Apply(getConfigValue(<<"errors", "getter">>), module, res),
                   Undef,
                   Undef)) EXCEPT !.complete = TRUE]
           ELSE n

\* mutant: the errors getter is applied to whatever was caught
catchError_AlwaysGetter(module, n) ==
  IF n.kind # "error" THEN n
  ELSE LET res == n.value
       IN  [Emit(n, NbAuthResult(
              FALSE,
              res,
              getConfigValue(<<module, "redirect", "failure">>),
              Apply(getConfigValue(<<"errors", "getter">>), module, res),
              Undef,
              Undef)) EXCEPT !.complete = TRUE]

\* catchError((res) => observableOf(new NbAuthResult(false, res,
\* redirect.failure, errors))): the replacement stream emits and completes
catchError(module, n) ==
  IF n.kind # "error" THEN n
  ELSE LET res == n.value
           errors == IF res.t = "object" /\ res.cls = "HttpErrorResponse"
                     THEN Apply(getConfigValue(<<"errors", "getter">>),
                                module, res)
                     ELSE Arr(<<"Something went wrong.">>)
       IN  [Emit(n, NbAuthResult(
              FALSE,
              res,
              getConfigValue(<<module, "redirect", "failure">>),
              errors,
              Undef,
              Undef)) EXCEPT !.complete = TRUE]

Request(method, url, options) ==
  [method |-> method, url |-> url, options |-> options]

\* authenticate(data?): the request it builds and the pipe over its outcome
authenticateRequest(data) ==
  Request(getConfigValue(<<"login", "method">>), getActionEndpoint("login"),
          Obj([body |-> data, observe |-> Str("response")]))

\* mutant: the pipe of authenticate without its catchError
authenticate_NoCatch(data, n) ==
  tokenResultMap("login",
    validateToken("login",
      alwaysFailMap("login", data, n)))

authenticate(data, n) ==
  catchError("login",
    tokenResultMap("login",
      validateToken("login",
        alwaysFailMap("login", data, n))))

registerRequest(data) ==
  Request(getConfigValue(<<"register", "method">>),
          getActionEndpoint("register"),
          Obj([body |-> data, observe |-> Str("response")]))

\* mutant: the token is validated before the alwaysFail flag is looked at
register_ValidateFirst(data, n) ==
  catchError("register",
    tokenResultMap("register",
      alwaysFailMap("register", data,
        validateToken("register", n))))

register(data, n) ==
  catchError("register",
    tokenResultMap("register",
      validateToken("register",
        alwaysFailMap("register", data, n))))

requestPasswordRequest(data) ==
  Request(getConfigValue(<<"requestPass", "method">>),
          getActionEndpoint("requestPass"),
          Obj([body |-> data, observe |-> Str("response")]))

requestPassword(data, n) ==
  catchError("requestPass",
    resultMap("requestPass",
      alwaysFailMap("requestPass", Undef, n)))

\* mutant: the token is written under the default key, whatever is configured
resetPasswordData_FixedKey(data, queryParams) ==
  LET given == IF data = Undef THEN Obj(NoFields) ELSE data
  IN  SetProp(given, "reset_password_token",
              Prop(queryParams, "reset_password_token"))

\* data = {} when the caller passes none, then
\* data[tokenKey] = this.route.snapshot.queryParams[tokenKey]
resetPasswordData(data, queryParams) ==
  LET given == IF data = Undef THEN Obj(NoFields) ELSE data
      tokenKey == getConfigValue(<<"resetPass", "resetPasswordTokenKey">>)
  IN  SetProp(given, tokenKey.v[1], Prop(queryParams, tokenKey.v[1]))

resetPasswordRequest(data, queryParams) ==
  Request(getConfigValue(<<"resetPass", "method">>),
          getActionEndpoint("resetPass"),
          Obj([body |-> resetPasswordData(data, queryParams),
               observe |-> Str("response")]))

resetPassword(data, n) ==
  catchError("resetPass",
    resultMap("resetPass",
      alwaysFailMap("resetPass", Undef, n)))

\* logout(): the switchMap asks the transport only for a truthy url
logoutRequests ==
  LET method == getConfigValue(<<"logout", "method">>)
      url == getActionEndpoint("logout")
  IN  IF ~Truthy(url) THEN <<>>
      ELSE <<Request(method, url, Obj([observe |-> Str("response")]))>>

logout(n) ==
  catchError("logout",
    resultMap("logout",
      alwaysFailMap("logout", Undef, n)))

\* mutant: the request is built as in logout, without the body
refreshTokenRequest_NoBody(data) ==
  Request(getConfigValue(<<"refreshToken", "method">>),
          getActionEndpoint("refreshToken"),
          Obj([observe |-> Str("response")]))

refreshTokenRequest(data) ==
  Request(getConfigValue(<<"refreshToken", "method">>),
          getActionEndpoint("refreshToken"),
          Obj([body |-> data, observe |-> Str("response")]))

refreshToken(data, n) ==
  catchError("refreshToken",
    tokenResultMap("refreshToken",
      validateToken("refreshToken",
        alwaysFailMap("refreshToken", data, n))))

\* the pipe of the method that serves an action
Pipe(action, data, n) ==
  CASE action = "login" -> authenticate(data, n)
    [] action = "register" -> register(data, n)
    [] action = "requestPass" -> requestPassword(data, n)
    [] action = "resetPass" -> resetPassword(data, n)
    [] action = "logout" -> logout(n)
    [] action = "refreshToken" -> refreshToken(data, n)

(* ------------------------- callers and the transport ------------------- *)

Callers == {"c1"}

\* what a caller submits
Datas ==
  {Undef,
   Obj([password |-> Str("secret"), reset_password_token |-> Str("OLD")])}

\* the query parameters of the current route
QueryParams ==
  {Obj(NoFields),
   Obj([reset_password_token |-> Str("XYZ"), token |-> Str("T2")])}

\* what the transport answers: a response envelope, a structured error
\* response, or a failure that is no HttpErrorResponse
SuccessBodies ==
  {Null,
   Obj(NoFields),
   Obj([data |-> Obj([token |-> Str("abc")])]),
   Obj([data |-> Obj([token |-> Str("")])]),
   Obj([data |-> Obj([token |-> Str("abc"),
                      messages |-> Arr(<<"Welcome back.">>)])]),
   Obj([data |-> Obj([messages |-> Arr(<<"Welcome back.">>)])])}

ErrorBodies ==
  {Obj(NoFields),
   Obj([data |-> Obj([errors |-> Arr(<<"Unknown email">>)])])}

Outcomes ==
  {OnNext(HttpResponse(200, b)) : b \in SuccessBodies}
  \cup {OnError(HttpErrorResponse(400, b)) : b \in ErrorBodies}
  \cup {OnError(JsError("Network unreachable."))}

\* outcome is what entered the pipe: nothing yet, the transport's answer,
\* or the placeholder {} of a logout that asks the transport nothing
NoOutcome == [kind |-> "none"]

Idle ==
  [pc |-> "idle", action |-> "none", data |-> Undef, queryParams |-> Undef,
   requests |-> <<>>, outcome |-> NoOutcome, results |-> <<>>,
   thrown |-> <<>>, completed |-> FALSE, console |-> <<>>]

\* the subscriber's side of a notification leaving the pipe
Deliver(call, n) ==
  [call EXCEPT
     !.results = IF n.kind = "next" THEN Append(@, n.value) ELSE @,
     !.thrown = IF n.kind = "error" THEN Append(@, n.value) ELSE @,
     !.completed = n.complete,
     !.console = @ \o n.log,
     !.pc = IF n.kind = "error" THEN "failed"
            ELSE IF n.complete THEN "done" ELSE "emitted"]

Init ==
  /\ config \in {setConfig(o) : o \in Overrides}
  /\ inv = [c \in Callers |-> Idle]

\* mutant: an action made to always fail is failed at the call, before any
\* request
Start_FailFast(c, action, data, queryParams, request) ==
  /\ inv[c].pc = "idle"
  /\ inv' = [inv EXCEPT ![c] =
       IF Truthy(getConfigValue(<<action, "alwaysFail">>))
       THEN Deliver([Idle EXCEPT !.action = action, !.data = data,
                                 !.queryParams = queryParams],
                    Pipe(action, data, OnError(createFailResponse(data))))
       ELSE [Idle EXCEPT !.pc = "requesting", !.action = action,
                         !.data = data, !.queryParams = queryParams,
                         !.requests = <<request>>]]
  /\ UNCHANGED config

\* a method whose request goes to the transport
Start(c, action, data, queryParams, request) ==
  /\ inv[c].pc = "idle"
  /\ inv' = [inv EXCEPT ![c] =
       [Idle EXCEPT !.pc = "requesting", !.action = action, !.data = data,
                    !.queryParams = queryParams, !.requests = <<request>>]]
  /\ UNCHANGED config

Authenticate(c) ==
  \E data \in Datas : Start(c, "login", data, Undef, authenticateRequest(data))

Register(c) ==
  \E data \in Datas : Start(c, "register", data, Undef, registerRequest(data))

RequestPassword(c) ==
  \E data \in Datas :
    Start(c, "requestPass", data, Undef, requestPasswordRequest(data))

ResetPassword(c) ==
  \E data \in Datas, q \in QueryParams :
    Start(c, "resetPass", data, q, resetPasswordRequest(data, q))

RefreshToken(c) ==
  \E data \in Datas :
    Start(c, "refreshToken", data, Undef, refreshTokenRequest(data))

\* logout(): without a request the placeholder {} runs through the pipe at
\* once and the stream of observableOf({}) completes
Logout(c) ==
  /\ inv[c].pc = "idle"
  /\ LET started == [Idle EXCEPT !.action = "logout",
                                 !.requests = logoutRequests]
     IN  inv' = [inv EXCEPT ![c] =
           IF logoutRequests # <<>>
           THEN [started EXCEPT !.pc = "requesting"]
           ELSE LET res == OnNext(Obj(NoFields))
                IN  Deliver([started EXCEPT !.outcome = res],
                            [logout(res) EXCEPT !.complete = TRUE])]
  /\ UNCHANGED config

\* mutant: the pipe that handles an answer is the one of the method called
\* last (the action kept in the provider, not in the invocation)
Respond_SharedAction(c) ==
  /\ inv[c].pc = "requesting"
  /\ \E outcome \in Outcomes, d \in DOMAIN inv :
       /\ inv[d].pc = "requesting"
       /\ inv' = [inv EXCEPT ![c] =
            Deliver([@ EXCEPT !.outcome = outcome],
                    Pipe(inv[d].action, @.data, outcome))]
  /\ UNCHANGED config

\* mutant: a failed request is sent once more (catchError resubscribing to
\* the source instead of replacing it)
Respond_Retry(c) ==
  /\ inv[c].pc = "requesting"
  /\ \E outcome \in Outcomes :
       inv' = [inv EXCEPT ![c] =
         IF outcome.kind = "error" /\ Len(@.requests) < 2
         THEN [@ EXCEPT !.requests = Append(@, @[1])]
         ELSE Deliver([@ EXCEPT !.outcome = outcome],
                      Pipe(@.action, @.data, outcome))]
  /\ UNCHANGED config

\* the transport's answer reaches the pipe
Respond(c) ==
  /\ inv[c].pc = "requesting"
  /\ \E outcome \in Outcomes :
       inv' = [inv EXCEPT ![c] =
         Deliver([@ EXCEPT !.outcome = outcome],
                 Pipe(@.action, @.data, outcome))]
  /\ UNCHANGED config

\* the transport completes its stream after the response
Complete(c) ==
  /\ inv[c].pc = "emitted"
  /\ inv' = [inv EXCEPT ![c].pc = "done", ![c].completed = TRUE]
  /\ UNCHANGED config

\* the caller is done with the result and may invoke again
Return(c) ==
  /\ inv[c].pc = "done"
  /\ inv' = [inv EXCEPT ![c] = Idle]
  /\ UNCHANGED config

Next ==
  \E c \in DOMAIN inv :
    \/ Authenticate(c)
    \/ Register(c)
    \/ RequestPassword(c)
    \/ ResetPassword(c)
    \/ Logout(c)
    \/ RefreshToken(c)
    \/ Respond(c)
    \/ Complete(c)
    \/ Return(c)

Spec == Init /\ [][Next]_vars

\* two callers whose invocations overlap, under the default configuration,
\* single and total alwaysFail settings and a local-only logout
ConcCallers == {"c1", "c2"}

ConcOverrides ==
  {AlwaysFailOverride(f) : f \in {{}, {"login"}, {"refreshToken"}, Actions}}
  \cup {deepExtend(Obj([logout |-> Obj([endpoint |-> Str("")])]),
                   Obj([baseEndpoint |-> Str("")]))}

ConcInit ==
  /\ config \in {setConfig(o) : o \in ConcOverrides}
  /\ inv = [c \in ConcCallers |-> Idle]

ConcSpec == ConcInit /\ [][Next]_vars

\* the transport's stream completes once it has delivered its response
FairSpec == Spec /\ \A c \in Callers : WF_vars(Complete(c))

(* ------------------------------ properties ----------------------------- *)

TokenActions == {"login", "register", "refreshToken"}

alwaysFail(action) == Truthy(getConfigValue(<<action, "alwaysFail">>))

IsSuccess(outcome) == outcome.kind = "next"

IsStructured(outcome) ==
  outcome.kind = "error" /\ outcome.value.cls = "HttpErrorResponse"

IsOpaque(outcome) ==
  outcome.kind = "error" /\ outcome.value.cls # "HttpErrorResponse"

\* the token the configured getter finds in a response, undefined if none
TokenOf(action, outcome) ==
  Apply(getConfigValue(<<"token", "getter">>), action, outcome.value)

TokenMissing(action, outcome) ==
  /\ action \in TokenActions
  /\ IsSuccess(outcome)
  /\ ~Truthy(TokenOf(action, outcome))

Terminal(call) == call.pc \in {"done", "failed"}

\* C1: one invocation produces exactly one Result, whatever the action and
\* the transport outcome: none before the outcome has entered the pipe,
\* exactly one from then on, no error in its place, and once the Result is
\* out the invocation completes.
C1_ExactlyOneResult ==
  /\ [](\A c \in Callers :
         /\ Len(inv[c].results) =
              (IF inv[c].outcome = NoOutcome THEN 0 ELSE 1)
         /\ inv[c].thrown = <<>>
         /\ (inv[c].completed => Len(inv[c].results) = 1)
         /\ (inv[c].pc = "done" <=> inv[c].completed))
  /\ \A c \in Callers :
       (inv[c].outcome # NoOutcome) ~> inv[c].completed

C1_Witness ==
  \E c \in Callers :
    /\ inv[c].completed
    /\ inv[c].action = "requestPass"
    /\ IsOpaque(inv[c].outcome)
    /\ Len(inv[c].results) = 1

\* C2: whenever the invoked action's alwaysFail flag is true, the Result has
\* success = false, whatever entered the pipe (a response with or without a
\* token, a structured error response, an opaque failure).
C2_AlwaysFailFails ==
  \A c \in Callers :
    (inv[c].action \in Actions /\ alwaysFail(inv[c].action)) =>
      /\ \A k \in DOMAIN inv[c].results : inv[c].results[k].success = FALSE
      /\ (inv[c].outcome # NoOutcome => inv[c].results # <<>>)

C2_Witness ==
  \E c \in Callers :
    /\ inv[c].action = "register"
    /\ alwaysFail("register")
    /\ IsSuccess(inv[c].outcome)
    /\ Truthy(TokenOf("register", inv[c].outcome))
    /\ inv[c].results # <<>>
    /\ inv[c].results[1].success = FALSE

\* C3: for login, register and refreshToken, a transport success whose
\* response gives the token getter nothing or a falsy value ends in a Result
\* with success = false, never in a success Result.
C3_TokenlessFails ==
  \A c \in Callers :
    TokenMissing(inv[c].action, inv[c].outcome) =>
      /\ Len(inv[c].results) = 1
      /\ inv[c].results[1].success = FALSE

C3_Witness ==
  \E c \in Callers :
    /\ inv[c].action = "refreshToken"
    /\ ~alwaysFail("refreshToken")
    /\ TokenMissing("refreshToken", inv[c].outcome)
    /\ inv[c].outcome.value.v.body = Obj([data |-> Obj([token |-> Str("")])])
    /\ inv[c].results[1].success = FALSE

\* the failure kind of an invocation, "none" for a success
FailureKind(call) ==
  CASE call.outcome = NoOutcome -> "none"
    [] IsStructured(call.outcome) -> "structured"
    [] IsOpaque(call.outcome) -> "opaque"
    [] alwaysFail(call.action) -> "alwaysFail"
    [] TokenMissing(call.action, call.outcome) -> "tokenMissing"
    [] OTHER -> "none"

\* C4: each of the four failure kinds (alwaysFail, structured transport
\* failure, opaque transport failure, token missing) reaches the caller as a
\* Result with success = false delivered as a value; no error is delivered.
C4_FailuresBecomeResults ==
  \A c \in Callers :
    FailureKind(inv[c]) # "none" =>
      /\ inv[c].thrown = <<>>
      /\ inv[c].pc # "failed"
      /\ Len(inv[c].results) = 1
      /\ inv[c].results[1].success = FALSE

C4_Witness ==
  \E c \in Callers :
    /\ FailureKind(inv[c]) = "tokenMissing"
    /\ inv[c].action = "login"
    /\ inv[c].pc = "done"
    /\ inv[c].thrown = <<>>
    /\ inv[c].results[1].success = FALSE

\* C5 (as claimed): with logout.endpoint the empty string or null a logout
\* issues no transport request whatever baseEndpoint is, and its Result is
\* computed from the empty placeholder: success = false if logout.alwaysFail
\* and success = true otherwise.
C5_LocalLogoutSendsNothing ==
  \A c \in Callers :
    (/\ inv[c].action = "logout"
     /\ ~Truthy(getConfigValue(<<"logout", "endpoint">>))) =>
      /\ inv[c].requests = <<>>
      /\ inv[c].outcome = OnNext(Obj(NoFields))
      /\ Len(inv[c].results) = 1
      /\ inv[c].results[1].success = ~alwaysFail("logout")

SomethingWentWrong == <<"Something went wrong.">>

LoginDefaultErrors ==
  <<"Login/Email combination is not correct, please try again.">>

\* a completed login under the default configuration whose response carried
\* no token
DefaultTokenlessLogin(call) ==
  /\ config = defaultConfig
  /\ call.action = "login"
  /\ IsSuccess(call.outcome)
  /\ Walk(call.outcome.value, <<"body", "data", "token">>) = Undef

\* C6 (as claimed): under the default configuration a login whose response
\* carries no token yields success = false with errors = login.defaultErrors
\* and a diagnostic naming the token key data.token.
C6_Original ==
  \A c \in Callers :
    DefaultTokenlessLogin(inv[c]) =>
      /\ Len(inv[c].results) = 1
      /\ inv[c].results[1].success = FALSE
      /\ inv[c].results[1].errors = LoginDefaultErrors
      /\ Len(inv[c].console) = 1
      /\ inv[c].console[1].key = Key(<<"data", "token">>)

\* C6 (amended): under the default configuration a login whose response
\* carries no token yields success = false with errors =
\* ["Something went wrong."], and exactly one diagnostic, naming the token
\* key data.token, is written.
C6_TokenlessLoginErrors ==
  \A c \in Callers :
    DefaultTokenlessLogin(inv[c]) =>
      /\ Len(inv[c].results) = 1
      /\ inv[c].results[1].success = FALSE
      /\ inv[c].results[1].errors = SomethingWentWrong
      /\ Len(inv[c].console) = 1
      /\ inv[c].console[1].key = Key(<<"data", "token">>)

C6_Witness ==
  \E c \in Callers :
    /\ DefaultTokenlessLogin(inv[c])
    /\ inv[c].outcome.value.v.body = Obj(NoFields)
    /\ inv[c].pc = "done"
    /\ inv[c].results[1].errors = SomethingWentWrong

\* C7: the errors of a failure Result are the configured errors getter's
\* value for (action, failure) exactly when a structured error response
\* entered the pipe; after an opaque failure, a forced alwaysFail failure or
\* a missing token they are ["Something went wrong."] under every
\* configuration.
C7_FailureErrors ==
  \A c \in Callers :
    (inv[c].results # <<>> /\ ~inv[c].results[1].success) =>
      inv[c].results[1].errors =
        (IF IsStructured(inv[c].outcome)
         THEN Apply(getConfigValue(<<"errors", "getter">>), inv[c].action,
                    inv[c].outcome.value).v
         ELSE SomethingWentWrong)

C7_Witness ==
  \E c \in Callers :
    /\ getConfigValue(<<"errors", "getter">>) = Fn("custom.errors.getter")
    /\ inv[c].action = "resetPass"
    /\ FailureKind(inv[c]) = "alwaysFail"
    /\ inv[c].results # <<>>
    /\ inv[c].results[1].errors = SomethingWentWrong

\* C8: with the default errors getter a structured transport failure yields
\* the value at data.errors of the error body when it is there and the
\* invoked action's own defaultErrors when it is not; requestPass failing
\* with {data: {errors: ["Unknown email"]}} yields errors ["Unknown email"].
C8_DefaultErrorsGetter ==
  \A c \in Callers :
    (/\ getConfigValue(<<"errors", "getter">>) = Fn("errors.getter")
     /\ IsStructured(inv[c].outcome)) =>
      LET found == Walk(inv[c].outcome.value, <<"error", "data", "errors">>)
          own == Prop(Prop(defaultConfig, inv[c].action), "defaultErrors")
      IN  /\ Len(inv[c].results) = 1
          /\ inv[c].results[1].success = FALSE
          /\ inv[c].results[1].errors =
               (IF found = Undef THEN own.v ELSE found.v)
          /\ (found = Arr(<<"Unknown email">>) =>
                inv[c].results[1].errors = <<"Unknown email">>)

C8_Witness ==
  \E c \in Callers :
    /\ getConfigValue(<<"errors", "getter">>) = Fn("errors.getter")
    /\ inv[c].action = "requestPass"
    /\ IsStructured(inv[c].outcome)
    /\ inv[c].outcome.value.v.error =
         Obj([data |-> Obj([errors |-> Arr(<<"Unknown email">>)])])
    /\ inv[c].results # <<>>
    /\ inv[c].results[1].errors = <<"Unknown email">>

\* a transport success with a token, for a token action that is not made
\* to fail
TokenSuccess(call) ==
  /\ call.action \in TokenActions
  /\ ~alwaysFail(call.action)
  /\ IsSuccess(call.outcome)
  /\ Truthy(TokenOf(call.action, call.outcome))

\* C9: for login, register and refreshToken with alwaysFail false, a
\* response with a token yields success = true, response = the envelope,
\* redirect = the action's redirect.success, no errors, token = the value
\* at data.token and messages = the value at data.messages or else the
\* action's defaultMessages; a default login with {data: {token: "abc"}}
\* gives token "abc", the login success message and redirect "/".
C9_TokenSuccessResult ==
  \A c \in Callers :
    TokenSuccess(inv[c]) =>
      LET res == inv[c].outcome.value
          said == Walk(res, <<"body", "data", "messages">>)
          own == Prop(Prop(defaultConfig, inv[c].action), "defaultMessages")
          r == inv[c].results[1]
      IN  /\ Len(inv[c].results) = 1
          /\ r.success = TRUE
          /\ r.response = res
          /\ r.redirect =
               Prop(Prop(Prop(config, inv[c].action), "redirect"), "success")
          /\ r.errors = <<>>
          /\ r.token = Walk(res, <<"body", "data", "token">>)
          /\ r.messages = (IF said = Undef THEN own.v ELSE said.v)
          /\ (/\ inv[c].action = "login"
              /\ res.v.body = Obj([data |-> Obj([token |-> Str("abc")])])) =>
                /\ r.token = Str("abc")
                /\ r.messages = <<"You have been successfully logged in.">>
                /\ r.redirect = Str("/")

C9_Witness ==
  \E c \in Callers :
    /\ config = defaultConfig
    /\ TokenSuccess(inv[c])
    /\ inv[c].action = "login"
    /\ inv[c].outcome.value.v.body =
         Obj([data |-> Obj([token |-> Str("abc")])])
    /\ inv[c].results # <<>>
    /\ inv[c].results[1].token = Str("abc")
    /\ inv[c].results[1].success

\* C10: from the moment its request is issued, the body a resetPass
\* invocation hands to the transport holds, at the key named by
\* resetPass.resetPasswordTokenKey, the query parameter of that name, and
\* every other submitted field unchanged; the query
\* reset_password_token=XYZ gives a body with reset_password_token "XYZ".
C10_ResetTokenInBody ==
  \A c \in Callers :
    inv[c].action = "resetPass" =>
      LET tokenKey ==
            Prop(Prop(config, "resetPass"), "resetPasswordTokenKey").v[1]
          submitted == IF inv[c].data = Undef THEN NoFields
                       ELSE inv[c].data.v
          body == Prop(inv[c].requests[1].options, "body")
      IN  /\ Len(inv[c].requests) = 1
          /\ body.t = "object"
          /\ DOMAIN body.v = (DOMAIN submitted) \cup {tokenKey}
          /\ body.v[tokenKey] = Prop(inv[c].queryParams, tokenKey)
          /\ \A k \in (DOMAIN submitted) \ {tokenKey} :
               body.v[k] = submitted[k]
          /\ (/\ tokenKey = "reset_password_token"
              /\ Prop(inv[c].queryParams, tokenKey) = Str("XYZ")) =>
                body.v.reset_password_token = Str("XYZ")

C10_Witness ==
  \E c \in Callers :
    /\ inv[c].action = "resetPass"
    /\ inv[c].pc = "requesting"
    /\ inv[c].data # Undef
    /\ Prop(inv[c].queryParams, "reset_password_token") = Str("XYZ")
    /\ Prop(inv[c].requests[1].options, "body") =
         Obj([password |-> Str("secret"), reset_password_token |-> Str("XYZ")])

\* the Result an invocation produces when it runs alone: its own method's
\* pipe over its own outcome
AloneResult(call) == Pipe(call.action, call.data, call.outcome).value

\* C11: with two invocations in flight and their outcomes arriving in any
\* order, each invocation's Result is the one its own action, data and
\* outcome give when it runs alone; a step of one invocation leaves the
\* other's state as it was; and the merged configuration never changes.
C11_Independent ==
  /\ [](\A c \in DOMAIN inv :
         inv[c].outcome # NoOutcome =>
           inv[c].results = <<AloneResult(inv[c])>>)
  /\ [][/\ config' = config
        /\ \A c, d \in DOMAIN inv :
             (inv'[c] # inv[c] /\ inv'[d] # inv[d]) => c = d]_vars

C11_Witness ==
  /\ DOMAIN inv = ConcCallers
  /\ inv["c1"].action = "login"
  /\ inv["c2"].action = "refreshToken"
  /\ inv["c1"].pc = "emitted"
  /\ inv["c2"].pc = "emitted"
  /\ inv["c1"].results[1].redirect = Str("/")
  /\ inv["c2"].results[1].redirect = Null
  /\ inv["c1"].results[1].messages = <<"You have been successfully logged in.">>
  /\ inv["c2"].results[1].messages = <<"Welcome back.">>

\* C12: an invocation of login, register, requestPass, resetPass or
\* refreshToken issues exactly one transport request and a logout at most
\* one; the requests of an invocation never change after its call, whatever
\* branch (alwaysFail, transport failure, token missing) it takes.
C12_OneRequest ==
  /\ [](\A c \in DOMAIN inv :
         /\ inv[c].action \in Actions \ {"logout"} =>
              Len(inv[c].requests) = 1
         /\ inv[c].action = "logout" => Len(inv[c].requests) <= 1)
  /\ [][\A c \in DOMAIN inv :
          (inv[c].pc # "idle" /\ inv'[c].pc # "idle") =>
            inv'[c].requests = inv[c].requests]_vars

C12_Witness ==
  \E c \in DOMAIN inv :
    /\ inv[c].action = "requestPass"
    /\ alwaysFail("requestPass")
    /\ IsStructured(inv[c].outcome)
    /\ inv[c].pc = "done"
    /\ Len(inv[c].requests) = 1

\* the redirect target configured for an action and a branch
RedirectOf(action, branch) ==
  Prop(Prop(Prop(config, action), "redirect"), branch)

\* C13: in every Result of every action, success = true comes with no
\* errors and the action's redirect.success, and success = false comes with
\* the action's redirect.failure and no messages.
C13_ResultShape ==
  \A c \in DOMAIN inv :
    \A k \in DOMAIN inv[c].results :
      LET r == inv[c].results[k]
      IN  /\ r.success =>
               /\ r.errors = <<>>
               /\ r.redirect = RedirectOf(inv[c].action, "success")
          /\ ~r.success =>
               /\ r.redirect = RedirectOf(inv[c].action, "failure")
               /\ r.messages = <<>>

C13_Witness ==
  \E c \in DOMAIN inv :
    /\ inv[c].action = "resetPass"
    /\ IsStructured(inv[c].outcome)
    /\ inv[c].results # <<>>
    /\ ~inv[c].results[1].success
    /\ inv[c].results[1].redirect = Null
    /\ inv[c].results[1].messages = <<>>
    /\ inv[c].results[1].errors = <<"Unknown email">>

TokenlessActions == {"logout", "requestPass", "resetPass"}

\* C14: no Result of logout, requestPass or resetPass carries a token, on
\* the success or the failure branch and whatever the response holds at
\* token.key; these actions never validate a token, so a response without
\* one is no failure for them and writes no diagnostic.
C14_NoTokenResult ==
  \A c \in DOMAIN inv :
    inv[c].action \in TokenlessActions =>
      /\ \A k \in DOMAIN inv[c].results : inv[c].results[k].token = Undef
      /\ inv[c].console = <<>>
      /\ (IsSuccess(inv[c].outcome) /\ ~alwaysFail(inv[c].action)) =>
            inv[c].results[1].success

C14_Witness ==
  \E c \in DOMAIN inv :
    /\ inv[c].action = "requestPass"
    /\ IsSuccess(inv[c].outcome)
    /\ Walk(inv[c].outcome.value, <<"body", "data", "token">>) = Str("abc")
    /\ inv[c].results # <<>>
    /\ inv[c].results[1].success
    /\ inv[c].results[1].token = Undef

\* the body option of the request an invocation issued, undefined if the
\* request has none
BodyOf(call) == Prop(call.requests[1].options, "body")

\* C15: login, register, requestPass and refreshToken hand the caller's
\* data to the transport unchanged as the body, logout sends no body, and
\* the body of resetPass differs from the submitted data in no field but the
\* one named by resetPass.resetPasswordTokenKey.
C15_OnlyResetPassChangesData ==
  \A c \in DOMAIN inv :
    /\ inv[c].action \in {"login", "register", "requestPass", "refreshToken"}
         => BodyOf(inv[c]) = inv[c].data
    /\ inv[c].action = "logout" =>
         \A k \in DOMAIN inv[c].requests :
           "body" \notin DOMAIN inv[c].requests[k].options.v
    /\ inv[c].action = "resetPass" =>
         LET tokenKey ==
               Prop(Prop(config, "resetPass"), "resetPasswordTokenKey").v[1]
             submitted == IF inv[c].data = Undef THEN NoFields
                          ELSE inv[c].data.v
         IN  \A k \in ((DOMAIN submitted) \cup (DOMAIN BodyOf(inv[c]).v))
                       \ {tokenKey} :
               /\ k \in DOMAIN submitted
               /\ k \in DOMAIN BodyOf(inv[c]).v
               /\ BodyOf(inv[c]).v[k] = submitted[k]

C15_Witness ==
  \E c \in DOMAIN inv :
    /\ inv[c].action = "refreshToken"
    /\ inv[c].pc = "requesting"
    /\ inv[c].data =
         Obj([password |-> Str("secret"), reset_password_token |-> Str("OLD")])
    /\ BodyOf(inv[c]) = inv[c].data

\* C16: for login, register, requestPass, resetPass and refreshToken with
\* alwaysFail true the transport request is issued all the same, and no
\* Result exists before the outcome of that request has been received.
C16_AlwaysFailAfterOutcome ==
  \A c \in DOMAIN inv :
    (inv[c].action \in Actions \ {"logout"} /\ alwaysFail(inv[c].action)) =>
      /\ Len(inv[c].requests) = 1
      /\ inv[c].pc \in {"requesting", "emitted", "done"}
      /\ (inv[c].pc = "requesting" => inv[c].results = <<>>)
      /\ (inv[c].results # <<>> => inv[c].outcome \in Outcomes)

C16_Witness ==
  \E c \in DOMAIN inv :
    /\ inv[c].action = "login"
    /\ alwaysFail("login")
    /\ Len(inv[c].requests) = 1
    /\ inv[c].pc = "done"
    /\ IsSuccess(inv[c].outcome)
    /\ ~inv[c].results[1].success

\* the Result a transport failure gives, from the failure and from the
\* action's redirect.failure and the errors getter, the alwaysFail flag
\* not being read
TransportFailureResult(action, outcome) ==
  [success |-> FALSE,
   response |-> outcome.value,
   redirect |-> RedirectOf(action, "failure"),
   errors |-> IF IsStructured(outcome)
              THEN Apply(getConfigValue(<<"errors", "getter">>), action,
                         outcome.value).v
              ELSE SomethingWentWrong,
   messages |-> <<>>,
   token |-> Undef]

\* C17: after a transport failure (structured or opaque) the Result of an
\* action is fixed by the failure alone, with the same success, response,
\* redirect and errors whether the action's alwaysFail flag is true or
\* false.
C17_FlagBlindOnTransportFailure ==
  \A c \in DOMAIN inv :
    (IsStructured(inv[c].outcome) \/ IsOpaque(inv[c].outcome)) =>
      inv[c].results = <<TransportFailureResult(inv[c].action, inv[c].outcome)>>

C17_Witness ==
  \E c \in DOMAIN inv :
    /\ inv[c].action = "register"
    /\ alwaysFail("register")
    /\ IsStructured(inv[c].outcome)
    /\ inv[c].results # <<>>
    /\ inv[c].results[1].response = inv[c].outcome.value
    /\ inv[c].results[1].errors = <<"Unknown email">>

\* the console line validateToken writes for a missing token
TokenDiagnostic ==
  [key |-> getConfigValue(<<"token", "key">>),
   getter |-> getConfigValue(<<"token", "getter">>)]

\* C18: an invocation writes the token-missing diagnostic, once, exactly
\* when it is a login, register or refreshToken whose transport succeeded,
\* whose alwaysFail flag is false and whose token getter returned a falsy
\* value; nothing is written on a transport failure, under alwaysFail, by
\* logout, requestPass or resetPass, or before the outcome.
C18_DiagnosticOnlyOnMissingToken ==
  \A c \in DOMAIN inv :
    inv[c].console =
      (IF /\ inv[c].outcome # NoOutcome
          /\ TokenMissing(inv[c].action, inv[c].outcome)
          /\ ~alwaysFail(inv[c].action)
       THEN <<TokenDiagnostic>>
       ELSE <<>>)

C18_Witness ==
  \E c \in DOMAIN inv :
    /\ inv[c].action = "refreshToken"
    /\ ~alwaysFail("refreshToken")
    /\ IsSuccess(inv[c].outcome)
    /\ inv[c].outcome.value.v.body = Null
    /\ inv[c].pc = "done"
    /\ Len(inv[c].console) = 1

\* C19: every Result with success = true of login, register or refreshToken
\* carries a truthy token, the value the token getter gives for the
\* response that entered the pipe.
C19_SuccessHasToken ==
  \A c \in DOMAIN inv :
    \A k \in DOMAIN inv[c].results :
      (inv[c].action \in TokenActions /\ inv[c].results[k].success) =>
        /\ IsSuccess(inv[c].outcome)
        /\ Truthy(inv[c].results[k].token)
        /\ inv[c].results[k].token = TokenOf(inv[c].action, inv[c].outcome)

C19_Witness ==
  \E c \in DOMAIN inv :
    /\ inv[c].action = "register"
    /\ inv[c].results # <<>>
    /\ inv[c].results[1].success
    /\ inv[c].results[1].token = Str("abc")
    /\ inv[c].results[1].messages = <<"Welcome back.">>

====
